---- MODULE Spec2Model ----
(***************************************************************************)
(* State-machine model of bluelogger.py: the BLE visitor registry, its     *)
(* presence tracker (upsert / mark_left_if_stale), the notification        *)
(* policy, the 1-second control loop and the atomic JSON writer.           *)
(*                                                                         *)
(* Conventions                                                             *)
(*   - Python None is the empty tuple, a present value x is <<x>>.         *)
(*   - Python str values the code computes on (names, UUIDs) are sequences *)
(*     of code points, so strip(), lower() and startswith() are computed.  *)
(*   - Addresses and sources are opaque and stay TLA+ strings.             *)
(*   - time.time() is an integer number of seconds; utc_now_iso() is the   *)
(*     same instant formatted, modelled as the record [iso |-> t].         *)
(*   - a dict is a function; a key that is missing is outside its DOMAIN.  *)
(***************************************************************************)
EXTENDS Integers, Sequences, FiniteSets, TLC

VARIABLES
    registry,    \* self.registry: [meta, devices]
    dirty,       \* self.dirty
    last_flush,  \* self.last_flush
    stop,        \* self.stop
    clock,       \* the wall clock read by time.time()
    disk,        \* the files at self.path and self.path + ".tmp"
    pc,          \* position of the control flow of run()
    ret,         \* which call of atomic_write_json is running ("loop"/"final")
    sent,        \* payloads handed to post_webhook_async, in order
    ticks,       \* loop iterations taken (bounded)
    sightings,   \* sightings delivered by the scanner (bounded)
    op,          \* the operation the last step performed, with its input
    quiet        \* a sweep has run and no upsert has been applied since

vars == <<registry, dirty, last_flush, stop, clock, disk, pc, ret, sent,
          ticks, sightings, op, quiet>>

----------------------------------------------------------------------------
(* Program constants *)

FLUSH_INTERVAL == 10
MAX_LAST_EVENTS == 25
LEAVE_TIMEOUT == 120
SecondsPerDay == 86400

(* Bounds of the model *)

MaxTicks == 2
MaxSightings == 2

\* The clock starts one second before a UTC midnight, so that enters fall on
\* both sides of a day boundary.
StartTime == 2 * SecondsPerDay - 1

\* Wall-clock time that passes across one `await asyncio.sleep(1)`: at least
\* one second, arbitrarily more when the loop is delayed, and less than zero
\* when the wall clock is stepped back (time.time() is not monotonic).
Deltas == {1, LEAVE_TIMEOUT, -2 * LEAVE_TIMEOUT}

\* The same, on the scale of the flush interval: a loop that keeps its period
\* and one that is delayed by the length of the flush interval.
FlushDeltas == {1, FLUSH_INTERVAL}

----------------------------------------------------------------------------
(* Python values *)

None == <<>>
Some(x) == <<x>>
Val(o) == o[1]

Get(d, k, default) == IF k \in DOMAIN d THEN d[k] ELSE default
SetDefault(d, k, v) == IF k \in DOMAIN d THEN d ELSE d @@ (k :> v)
Put(d, k, v) == [x \in DOMAIN d \cup {k} |-> IF x = k THEN v ELSE d[x]]
EmptyDict == <<>>

\* bool(x) for an optional number: None and 0 are falsy
TruthyNum(o) == o # None /\ Val(o) # 0

utc_now_iso(t) == [iso |-> t]
now_epoch(t) == t

(* str methods, on sequences of code points *)

IsSpace(c) == c \in {9, 10, 11, 12, 13, 28, 29, 30, 31, 32, 133, 160}

RECURSIVE LStrip(_)
LStrip(s) == IF s # <<>> /\ IsSpace(Head(s)) THEN LStrip(Tail(s)) ELSE s

RECURSIVE RStrip(_)
RStrip(s) ==
    IF s # <<>> /\ IsSpace(s[Len(s)]) THEN RStrip(SubSeq(s, 1, Len(s) - 1)) ELSE s

Strip(s) == RStrip(LStrip(s))

Lower(s) == [i \in 1..Len(s) |-> IF s[i] \in 65..90 THEN s[i] + 32 ELSE s[i]]

StartsWith(s, p) == Len(s) >= Len(p) /\ SubSeq(s, 1, Len(p)) = p

\* lexicographic order of str
RECURSIVE StrLess(_, _)
StrLess(a, b) ==
    IF b = <<>> THEN FALSE
    ELSE IF a = <<>> THEN TRUE
    ELSE IF Head(a) # Head(b) THEN Head(a) < Head(b)
    ELSE StrLess(Tail(a), Tail(b))

SeqToSet(s) == {s[i] : i \in 1..Len(s)}

RECURSIVE SortedInts(_)
SortedInts(S) ==
    IF S = {} THEN <<>>
    ELSE LET m == CHOOSE x \in S : \A y \in S : x <= y
         IN  <<m>> \o SortedInts(S \ {m})

RECURSIVE SortedStrs(_)
SortedStrs(S) ==
    IF S = {} THEN <<>>
    ELSE LET m == CHOOSE x \in S : \A y \in S \ {x} : StrLess(x, y)
         IN  <<m>> \o SortedStrs(S \ {m})

----------------------------------------------------------------------------
(* Fingerprint engine and classifier *)

\* sha1(raw).hexdigest()[:12], taken as injective on the canonical string raw:
\* the fingerprint is identified with the three joined parts it hashes.
Sha1Prefix(mfg_part, svc_part, sdk_part) ==
    [mfg |-> mfg_part, svc |-> svc_part, sdk |-> sdk_part]

\* Mutant: the identifiers are hashed in the order of the advertisement
compute_fingerprint_InputOrder(mfg_ids, service_uuids, service_data_keys) ==
    << Sha1Prefix(mfg_ids, service_uuids, service_data_keys),
       [manufacturer_ids |-> mfg_ids, service_uuids |-> service_uuids,
        service_data_keys |-> service_data_keys] >>

\* Returns <<fp, material>>.
compute_fingerprint(mfg_ids, service_uuids, service_data_keys) ==
    LET m == SortedInts(SeqToSet(mfg_ids))
        u == SortedStrs(SeqToSet(service_uuids))
        k == SortedStrs(SeqToSet(service_data_keys))
    IN  << Sha1Prefix(m, u, k),
           [manufacturer_ids |-> m, service_uuids |-> u, service_data_keys |-> k] >>

\* "0000feaa"
EddystonePrefix == <<48, 48, 48, 48, 102, 101, 97, 97>>

\* sorted() of the four tag strings
TagOrder == <<"beacon:eddystone", "vendor:apple", "vendor:google", "vendor:samsung">>

\* Returns <<sorted(set(tags)), primary>>.
classify_tags(mfg_ids, service_uuids) ==
    LET ids  == SeqToSet(mfg_ids)
        tags == (IF 76 \in ids THEN <<"vendor:apple">> ELSE <<>>)
                \o (IF 117 \in ids THEN <<"vendor:samsung">> ELSE <<>>)
                \o (IF 224 \in ids THEN <<"vendor:google">> ELSE <<>>)
                \o (IF \E i \in 1..Len(service_uuids) :
                          StartsWith(Lower(service_uuids[i]), EddystonePrefix)
                    THEN <<"beacon:eddystone">> ELSE <<>>)
        primary == IF tags # <<>> THEN tags[1] ELSE "unclassified"
    IN  << SelectSeq(TagOrder, LAMBDA t : t \in SeqToSet(tags)), primary >>

----------------------------------------------------------------------------
(* Registry store: file contents, load_registry *)

Absent == [kind |-> "absent"]                 \* no file at the path
EmptyFile == [kind |-> "empty"]               \* a file with no (or blank) text
PartialText == [kind |-> "partial"]           \* a prefix of a JSON text
NonDictJson == [kind |-> "nondict"]           \* a JSON value that is no object
\* A JSON object in full. mistyped names the entries among "meta", "devices"
\* and "record" (a device record) whose value is a JSON value other than an
\* object (null, a number, a string, an array); data holds the other entries.
MistypedDoc(data, entries) == [kind |-> "json", data |-> data, mistyped |-> entries]
JsonDoc(data) == MistypedDoc(data, {})             \* json.dump(data)

FreshRegistry(now) ==
    [meta |-> ("created_utc" :> utc_now_iso(now)), devices |-> EmptyDict]

load_registry(file, now) ==
    IF file.kind = "absent" THEN FreshRegistry(now)
    ELSE IF file.kind = "empty" THEN FreshRegistry(now)
    ELSE IF file.kind = "partial" THEN FreshRegistry(now)
    ELSE IF file.kind = "nondict" THEN FreshRegistry(now)
    ELSE SetDefault(SetDefault(file.data, "meta", EmptyDict), "devices", EmptyDict)

----------------------------------------------------------------------------
(* Presence tracker: construction and migration *)

\* rec.setdefault(...) for every presence field
MigrateRecord(rec) ==
    LET r1  == SetDefault(rec, "present", FALSE)
        r2  == SetDefault(r1, "last_seen_ts", 0)
        r3  == SetDefault(r2, "last_left", None)
        r4  == SetDefault(r3, "last_enter", None)
        r5  == SetDefault(r4, "enter_count", 0)
        r6  == SetDefault(r5, "leave_count", 0)
        r7  == SetDefault(r6, "reenter_count", 0)
        r8  == SetDefault(r7, "last_enter_ts", None)
        r9  == SetDefault(r8, "last_left_ts", None)
    IN  SetDefault(r9, "presence_by_day", EmptyDict)

_migrate_presence_fields(reg) ==
    [reg EXCEPT !.devices = [fp \in DOMAIN reg.devices |-> MigrateRecord(reg.devices[fp])]]

\* BLEVisitorLogger.__init__ raises: item assignment on a meta that is no dict
\* (line 129), .values() on a devices that is no dict (line 136), or
\* .setdefault on a record that is no dict (line 137)
ConstructRaises(file, now) ==
    /\ file.kind = "json"
    /\ file.mistyped # {}

\* BLEVisitorLogger.__init__: the registry after load, metadata and migration
Construct(file, now) ==
    LET loaded == load_registry(file, now)
        reg    == SetDefault(SetDefault(loaded, "meta", EmptyDict), "devices", EmptyDict)
        meta   == Put(Put(Put(reg.meta, "updated_utc", utc_now_iso(now)),
                          "adapter", "hci1"),
                      "leave_timeout_sec", LEAVE_TIMEOUT)
    IN  _migrate_presence_fields([reg EXCEPT !.meta = meta])

----------------------------------------------------------------------------
(* Presence tracker: notification policy *)

\* "your_devices_here"
SuppressedName ==
    <<121, 111, 117, 114, 95, 100, 101, 118, 105, 99, 101, 115, 95,
      104, 101, 114, 101>>

SUPPRESS_NOTIFY_NAMES == {SuppressedName}

\* (name or "")
NameOrEmpty(name) == IF name = None THEN <<>> ELSE Val(name)

\* Mutant: the name is compared as received, without strip() and lower()
_name_suppressed_Exact(name) == NameOrEmpty(name) \in SUPPRESS_NOTIFY_NAMES

_name_suppressed(name) == Lower(Strip(NameOrEmpty(name))) \in SUPPRESS_NOTIFY_NAMES

_qualifies_for_notify(rec, name) ==
    IF _name_suppressed(name) THEN FALSE
    ELSE LET has_name   == Strip(NameOrEmpty(name)) # <<>>
             has_vendor == Get(rec, "primary_tag", None) # "unclassified"
         IN  has_name \/ has_vendor

----------------------------------------------------------------------------
(* Presence tracker: sweep *)

\* datetime.fromtimestamp(ts, tz=utc).date().isoformat(): the UTC calendar day
DayKey(ts) == ts \div SecondsPerDay

Max(a, b) == IF a >= b THEN a ELSE b

\* Mutant: the dwell is filed under the day of the leave
_update_presence_time_LeaveDay(rec, leave_ts) ==
    LET enter_ts == Get(rec, "last_enter_ts", None)
    IN  IF ~TruthyNum(enter_ts) THEN rec
        ELSE LET elapsed == Max(0, leave_ts - Val(enter_ts))
                 day_key == DayKey(leave_ts)
                 agg     == Get(rec, "presence_by_day", EmptyDict)
                 r1      == Put(rec, "presence_by_day",
                                Put(agg, day_key, Get(agg, day_key, 0) + elapsed))
             IN  Put(r1, "last_left_ts", Some(leave_ts))

_update_presence_time(rec, leave_ts) ==
    LET enter_ts == Get(rec, "last_enter_ts", None)
    IN  IF ~TruthyNum(enter_ts) THEN rec
        ELSE LET elapsed == Max(0, leave_ts - Val(enter_ts))
                 day_key == DayKey(Val(enter_ts))
                 agg     == Get(rec, "presence_by_day", EmptyDict)
                 r1      == Put(rec, "presence_by_day",
                                Put(agg, day_key, Get(agg, day_key, 0) + elapsed))
             IN  Put(r1, "last_left_ts", Some(leave_ts))

\* Mutant: the timeout must be exceeded, not reached
IsStale_Strict(rec, now_ts) ==
    /\ Get(rec, "present", FALSE)
    /\ Get(rec, "last_seen_ts", 0) > 0
    /\ (now_ts - Get(rec, "last_seen_ts", 0)) > LEAVE_TIMEOUT

\* Mutant: the sweep does not skip records that are not present
IsStale_AnyRecord(rec, now_ts) ==
    /\ Get(rec, "last_seen_ts", 0) > 0
    /\ (now_ts - Get(rec, "last_seen_ts", 0)) >= LEAVE_TIMEOUT

\* The condition under which the sweep marks a record as left (lines 185-190)
IsStale(rec, now_ts) ==
    /\ Get(rec, "present", FALSE)
    /\ Get(rec, "last_seen_ts", 0) > 0
    /\ (now_ts - Get(rec, "last_seen_ts", 0)) >= LEAVE_TIMEOUT

\* The body of the sweep loop for one record
\* Mutant: the leave is recorded without being counted
MarkLeft_NoCount(rec, now_ts, now_iso) ==
    IF ~IsStale(rec, now_ts) THEN rec
    ELSE LET r1 == Put(rec, "present", FALSE)
             r2 == Put(r1, "last_left", Some(now_iso))
         IN  _update_presence_time(r2, now_ts)

MarkLeft(rec, now_ts, now_iso) ==
    IF ~IsStale(rec, now_ts) THEN rec
    ELSE LET r1 == Put(rec, "present", FALSE)
             r2 == Put(r1, "last_left", Some(now_iso))
             r3 == Put(r2, "leave_count", Get(rec, "leave_count", 0) + 1)
         IN  _update_presence_time(r3, now_ts)

\* Returns [registry, dirty].
mark_left_if_stale(reg, was_dirty, now) ==
    LET now_ts  == now_epoch(now)
        now_iso == utc_now_iso(now)
        devs    == [fp \in DOMAIN reg.devices |-> MarkLeft(reg.devices[fp], now_ts, now_iso)]
        d       == was_dirty \/ \E fp \in DOMAIN reg.devices : IsStale(reg.devices[fp], now_ts)
    IN  [registry |-> [reg EXCEPT !.devices = devs,
                                  !.meta = IF d THEN Put(reg.meta, "updated_utc", now_iso)
                                           ELSE reg.meta],
         dirty |-> d]

----------------------------------------------------------------------------
(* Presence tracker: upsert *)

\* The record a first sighting of a fingerprint creates (lines 222-245)
NewRecord(fp, material, tags, primary, now_iso) ==
    [fp |-> fp, fingerprint |-> material, tags |-> tags, primary_tag |-> primary,
     first_seen |-> now_iso, last_seen |-> now_iso, seen_count |-> 0,
     addresses |-> <<>>, names_seen |-> <<>>, best_rssi |-> None, last_rssi |-> None,
     last_events |-> <<>>, present |-> FALSE, last_seen_ts |-> 0,
     last_left |-> None, last_enter |-> None, last_enter_ts |-> None,
     last_left_ts |-> None, enter_count |-> 0, leave_count |-> 0,
     reenter_count |-> 0, presence_by_day |-> EmptyDict]

\* rec["last_events"][-MAX_LAST_EVENTS:]
\* Mutant: the list is cut at its end, seq[:n]
LastN_KeepsFirst(seq, n) == IF Len(seq) <= n THEN seq ELSE SubSeq(seq, 1, n)

LastN(seq, n) == IF Len(seq) <= n THEN seq ELSE SubSeq(seq, Len(seq) - n + 1, Len(seq))

\* truthiness of an optional str
TruthyStr(o, empty) == o # None /\ Val(o) # empty

\* Mutant: the sighting is recorded without being counted
ObserveFields_NoCount(rec, s, now_iso, now_ts) ==
    LET r1 == Put(rec, "last_seen", now_iso)
        r2 == Put(r1, "last_seen_ts", now_ts)
        r3 == Put(r2, "seen_count", Get(rec, "seen_count", 0))
        r4 == Put(r3, "last_rssi", s.rssi)
        best == Get(r4, "best_rssi", None)
        r5 == IF s.rssi # None /\ (best = None \/ Val(s.rssi) > Val(best))
              THEN Put(r4, "best_rssi", s.rssi) ELSE r4
        r6 == IF TruthyStr(s.address, "") /\ Val(s.address) \notin SeqToSet(r5.addresses)
              THEN Put(r5, "addresses", Append(r5.addresses, Val(s.address))) ELSE r5
    IN  IF TruthyStr(s.name, <<>>) /\ Val(s.name) \notin SeqToSet(r6.names_seen)
        THEN Put(r6, "names_seen", Append(r6.names_seen, Val(s.name))) ELSE r6

\* The observation part of upsert up to the names (lines 248-262)
ObserveFields(rec, s, now_iso, now_ts) ==
    LET r1 == Put(rec, "last_seen", now_iso)
        r2 == Put(r1, "last_seen_ts", now_ts)
        r3 == Put(r2, "seen_count", Get(rec, "seen_count", 0) + 1)
        r4 == Put(r3, "last_rssi", s.rssi)
        best == Get(r4, "best_rssi", None)
        r5 == IF s.rssi # None /\ (best = None \/ Val(s.rssi) > Val(best))
              THEN Put(r4, "best_rssi", s.rssi) ELSE r4
        r6 == IF TruthyStr(s.address, "") /\ Val(s.address) \notin SeqToSet(r5.addresses)
              THEN Put(r5, "addresses", Append(r5.addresses, Val(s.address))) ELSE r5
    IN  IF TruthyStr(s.name, <<>>) /\ Val(s.name) \notin SeqToSet(r6.names_seen)
        THEN Put(r6, "names_seen", Append(r6.names_seen, Val(s.name))) ELSE r6

\* The observation part of upsert (lines 248-267)
Observe(rec, s, now_iso, now_ts) ==
    LET r7 == ObserveFields(rec, s, now_iso, now_ts)
        ev == [time |-> now_iso, address |-> s.address, rssi |-> s.rssi,
               source |-> s.source]
    IN  Put(r7, "last_events", LastN(Append(r7.last_events, ev), MAX_LAST_EVENTS))

\* Mutant: the enter stamps the wall-clock last_enter but not the epoch
Enter_NoEpochStamp(rec, now_iso, now_ts) ==
    LET r1 == Put(rec, "enter_count", Get(rec, "enter_count", 0) + 1)
        r2 == IF Get(r1, "last_left", None) # None
              THEN Put(r1, "reenter_count", Get(r1, "reenter_count", 0) + 1) ELSE r1
        r3 == Put(r2, "present", TRUE)
    IN  Put(r3, "last_enter", Some(now_iso))

\* Mutant: every enter counts as a re-enter
Enter_AlwaysReenter(rec, now_iso, now_ts) ==
    LET r1 == Put(rec, "enter_count", Get(rec, "enter_count", 0) + 1)
        r2 == Put(r1, "reenter_count", Get(r1, "reenter_count", 0) + 1)
        r3 == Put(r2, "present", TRUE)
        r4 == Put(r3, "last_enter", Some(now_iso))
    IN  Put(r4, "last_enter_ts", Some(now_ts))

\* The enter bookkeeping of upsert (lines 273-279)
Enter(rec, now_iso, now_ts) ==
    LET r1 == Put(rec, "enter_count", Get(rec, "enter_count", 0) + 1)
        r2 == IF Get(r1, "last_left", None) # None
              THEN Put(r1, "reenter_count", Get(r1, "reenter_count", 0) + 1) ELSE r1
        r3 == Put(r2, "present", TRUE)
        r4 == Put(r3, "last_enter", Some(now_iso))
    IN  Put(r4, "last_enter_ts", Some(now_ts))

\* The payload of the "enter" webhook (lines 282-297)
EnterPayload(rec, fp, material, s) ==
    [event |-> "enter", fp |-> fp, name |-> s.name, address |-> s.address,
     rssi |-> s.rssi, best_rssi |-> Get(rec, "best_rssi", None),
     seen_count |-> Get(rec, "seen_count", None),
     primary_tag |-> Get(rec, "primary_tag", None),
     tags |-> Get(rec, "tags", <<>>),
     last_left |-> Get(rec, "last_left", None),
     last_enter |-> Get(rec, "last_enter", None),
     manufacturer_ids |-> material.manufacturer_ids,
     service_uuids |-> material.service_uuids,
     service_data_keys |-> material.service_data_keys]

\* Mutant: the enter branch is taken whatever the presence state
TakesEnter_Always(rec) == TRUE

\* Whether upsert takes the enter branch for the observed record (line 272)
TakesEnter(rec) == ~Get(rec, "present", FALSE)

\* Mutant: the record found under the fingerprint is ignored and a fresh one
\* is seeded on every sighting
upsert_AlwaysNew(reg, s, now) ==
    LET now_iso  == utc_now_iso(now)
        now_ts   == now_epoch(now)
        fpm      == compute_fingerprint(s.mfg_data, s.service_uuids, s.service_data_keys)
        cls      == classify_tags(s.mfg_data, s.service_uuids)
        rec1     == Observe(NewRecord(fpm[1], fpm[2], cls[1], cls[2], now_iso),
                            s, now_iso, now_ts)
        rec2     == Enter(rec1, now_iso, now_ts)
        posts    == IF _qualifies_for_notify(rec2, s.name)
                    THEN <<EnterPayload(rec2, fpm[1], fpm[2], s)>> ELSE <<>>
    IN  [registry |-> [meta |-> Put(reg.meta, "updated_utc", now_iso),
                       devices |-> Put(reg.devices, fpm[1], rec2)],
         posts |-> posts]

\* Returns [registry, posts]: the registry after the upsert and the payloads
\* handed to post_webhook_async (none or one).
upsert(reg, s, now) ==
    LET now_iso  == utc_now_iso(now)
        now_ts   == now_epoch(now)
        mfg_ids  == s.mfg_data
        fpm      == compute_fingerprint(mfg_ids, s.service_uuids, s.service_data_keys)
        fp       == fpm[1]
        material == fpm[2]
        cls      == classify_tags(mfg_ids, s.service_uuids)
        rec0     == IF fp \in DOMAIN reg.devices THEN reg.devices[fp]
                    ELSE NewRecord(fp, material, cls[1], cls[2], now_iso)
        rec1     == Observe(rec0, s, now_iso, now_ts)
        enters   == TakesEnter(rec1)
        rec2     == IF enters THEN Enter(rec1, now_iso, now_ts) ELSE rec1
        posts    == IF enters /\ _qualifies_for_notify(rec2, s.name)
                    THEN <<EnterPayload(rec2, fp, material, s)>> ELSE <<>>
    IN  [registry |-> [meta |-> Put(reg.meta, "updated_utc", now_iso),
                       devices |-> Put(reg.devices, fp, rec2)],
         posts |-> posts]

\* The fingerprint a sighting is filed under
FpOf(s) == compute_fingerprint(s.mfg_data, s.service_uuids, s.service_data_keys)[1]

\* rec["last_events"] (line 264) raises KeyError: the sighting's record was
\* loaded from a document that has no such key for it
UpsertRaises(reg, s) ==
    /\ FpOf(s) \in DOMAIN reg.devices
    /\ "last_events" \notin DOMAIN reg.devices[FpOf(s)]

\* The detection callback (lines 301-319): upsert inside try/except, which
\* swallows whatever upsert raises. Returns [registry, posts]. An upsert that
\* raises at line 264 has run lines 248-262 on the record.
cb(reg, s, now) ==
    IF UpsertRaises(reg, s)
    THEN [registry |-> [reg EXCEPT !.devices =
                            Put(reg.devices, FpOf(s),
                                ObserveFields(reg.devices[FpOf(s)], s,
                                              utc_now_iso(now), now_epoch(now)))],
          posts |-> <<>>]
    ELSE upsert(reg, s, now)

----------------------------------------------------------------------------
(* Inputs: the sightings the scanner delivers *)

Sighting(address, name, rssi, mfg_data, service_uuids, service_data_keys, source) ==
    [address |-> address, name |-> name, rssi |-> rssi, mfg_data |-> mfg_data,
     service_uuids |-> service_uuids, service_data_keys |-> service_data_keys,
     source |-> source]

\* " Your_Devices_Here": the suppressed name with other case and padding
PaddedSuppressedName ==
    <<32, 89, 111, 117, 114, 95, 68, 101, 118, 105, 99, 101, 115, 95,
      72, 101, 114, 101>>

\* "P" and " "
PlainName == <<80>>
BlankName == <<32>>

Sightings ==
    { \* an Apple device without a name (qualifies by its tag)
      Sighting(Some("AA"), None, Some(-60), <<76>>, <<>>, <<>>, Some("hci1")),
      \* an Apple device under a suppressed name
      Sighting(Some("BB"), Some(PaddedSuppressedName), Some(-55), <<76>>, <<>>, <<>>, None),
      \* devices without any signature: a name, a blank name
      Sighting(Some(""), Some(PlainName), None, <<>>, <<>>, <<>>, Some("hci1")),
      Sighting(None, Some(BlankName), Some(-70), <<>>, <<>>, <<>>, None) }

\* "a", "b" and "k": service UUIDs and a service-data key
UuidA == <<97>>
UuidB == <<98>>
KeyK == <<107>>

\* Sightings that list the same identifiers in another order or more than
\* once, under different addresses, names, signal strengths and origins, and
\* sightings without any identifier
FpSightings ==
    { Sighting(Some("AA"), None, Some(-60), <<76, 117>>, <<UuidA, UuidB, UuidA>>,
               <<KeyK>>, Some("hci1")),
      Sighting(Some("BB"), Some(PlainName), None, <<117, 76>>, <<UuidB, UuidA>>,
               <<KeyK, KeyK>>, None),
      Sighting(Some("CC"), Some(PlainName), Some(-50), <<>>, <<>>, <<>>, Some("hci1")),
      Sighting(None, Some(BlankName), Some(-70), <<>>, <<>>, <<>>, None) }

\* The k-th sighting of a device whose signal weakens by 1 dBm per sighting,
\* which tells its sightings apart
BurstSighting(k) == Sighting(Some("AA"), None, Some(-k), <<76>>, <<>>, <<>>, Some("hci1"))

\* A loop late enough for the flush to be due at every tick
LateDeltas == {FLUSH_INTERVAL + 1}

AppleFp == compute_fingerprint(<<76>>, <<>>, <<>>)
AnonFp == compute_fingerprint(<<>>, <<>>, <<>>)

(* Inputs: the file found at the path on startup *)

\* A record of the kind _migrate_presence_fields exists for: it has the
\* observation fields and present/last_seen_ts/last_left/last_enter, and lacks
\* the counters, the epoch stamps and presence_by_day that the migration adds.
LegacyRecord ==
    [fp |-> AppleFp[1], fingerprint |-> AppleFp[2], tags |-> <<"vendor:apple">>,
     primary_tag |-> "vendor:apple",
     first_seen |-> utc_now_iso(StartTime - 30), last_seen |-> utc_now_iso(StartTime - 30),
     seen_count |-> 1, addresses |-> <<"AA">>, names_seen |-> <<>>,
     best_rssi |-> Some(-60), last_rssi |-> Some(-60),
     last_events |-> << [time |-> utc_now_iso(StartTime - 30), address |-> Some("AA"),
                         rssi |-> Some(-60), source |-> Some("hci1")] >>,
     present |-> TRUE, last_seen_ts |-> StartTime - 30,
     last_left |-> None, last_enter |-> Some(utc_now_iso(StartTime - 30))]

\* A record as this version writes it: entered 500 s ago, left 370 s ago.
SavedRecord ==
    [fp |-> AnonFp[1], fingerprint |-> AnonFp[2], tags |-> <<>>,
     primary_tag |-> "unclassified",
     first_seen |-> utc_now_iso(StartTime - 500), last_seen |-> utc_now_iso(StartTime - 500),
     seen_count |-> 1, addresses |-> <<"AA">>, names_seen |-> <<>>,
     best_rssi |-> Some(-60), last_rssi |-> Some(-60),
     last_events |-> << [time |-> utc_now_iso(StartTime - 500), address |-> Some("AA"),
                         rssi |-> Some(-60), source |-> None] >>,
     present |-> FALSE, last_seen_ts |-> StartTime - 500,
     last_left |-> Some(utc_now_iso(StartTime - 370)),
     last_enter |-> Some(utc_now_iso(StartTime - 500)),
     last_enter_ts |-> Some(StartTime - 500), last_left_ts |-> Some(StartTime - 370),
     enter_count |-> 1, leave_count |-> 1, reenter_count |-> 0,
     presence_by_day |-> (DayKey(StartTime - 500) :> 130)]

SavedMeta ==
    [created_utc |-> utc_now_iso(StartTime - 500), updated_utc |-> utc_now_iso(StartTime - 370),
     adapter |-> "hci1", leave_timeout_sec |-> LEAVE_TIMEOUT]

\* A record written without last_seen_ts, the case the migration defaults to
\* 0.0 and the sweep skips (lines 138, 187-189). No sighting of the model has
\* its fingerprint.
SamsungFp == compute_fingerprint(<<117>>, <<>>, <<>>)

UnseenRecord ==
    [fp |-> SamsungFp[1], fingerprint |-> SamsungFp[2], tags |-> <<"vendor:samsung">>,
     primary_tag |-> "vendor:samsung",
     first_seen |-> utc_now_iso(StartTime - 30), last_seen |-> utc_now_iso(StartTime - 30),
     seen_count |-> 1, addresses |-> <<>>, names_seen |-> <<>>,
     best_rssi |-> None, last_rssi |-> None, last_events |-> <<>>,
     present |-> TRUE]

LegacyDoc == JsonDoc([meta |-> [created_utc |-> utc_now_iso(StartTime - 30)],
                      devices |-> (AppleFp[1] :> LegacyRecord) @@ (SamsungFp[1] :> UnseenRecord)])

SavedDoc == JsonDoc([meta |-> SavedMeta, devices |-> (AnonFp[1] :> SavedRecord)])

StartFiles == {Absent, LegacyDoc, SavedDoc}

\* A record that lacks the last_events key: the loader takes any JSON object
EventlessRecord ==
    [k \in DOMAIN SavedRecord \ {"last_events"} |-> SavedRecord[k]]

EventlessDoc == JsonDoc([meta |-> SavedMeta, devices |-> (AnonFp[1] :> EventlessRecord)])

\* Documents with an entry of the wrong JSON type
BadMetaDoc == MistypedDoc([devices |-> EmptyDict], {"meta"})
BadDevicesDoc == MistypedDoc([meta |-> SavedMeta], {"devices"})
BadRecordDoc == MistypedDoc([meta |-> SavedMeta, devices |-> EmptyDict], {"record"})

\* Every kind of file the program can find at its path
LoadFiles ==
    {Absent, EmptyFile, PartialText, NonDictJson, SavedDoc,
     BadMetaDoc, BadDevicesDoc, BadRecordDoc}

----------------------------------------------------------------------------
(* The state machine *)

Op(name, arg) == [name |-> name, arg |-> arg]

\* main(): BLEVisitorLogger(SAVE_PATH) on whatever file is at the path,
\* then run() up to the head of its loop. When the constructor raises, the
\* exception leaves main() and the process ends with it.
InitFrom(files) ==
    /\ \E file \in files :
          /\ disk = [target |-> file, tmp |-> Absent]
          /\ IF ConstructRaises(file, StartTime)
             THEN /\ registry = load_registry(file, StartTime)
                  /\ dirty = FALSE
                  /\ pc = "raised"
             ELSE /\ registry = Construct(file, StartTime)
                  /\ dirty = TRUE
                  /\ pc = "loop"
    /\ last_flush = StartTime
    /\ stop = FALSE
    /\ clock = StartTime
    /\ ret = "loop"
    /\ sent = <<>>
    /\ ticks = 0
    /\ sightings = 0
    /\ op = Op("init", None)
    /\ quiet = FALSE

Init == InitFrom(StartFiles)

\* `while not self.stop` (line 328), and leaving `async with scanner`
LoopHead ==
    /\ pc = "loop"
    /\ pc' = IF stop THEN "stopping" ELSE "sleep"
    /\ op' = Op("loop", None)
    /\ UNCHANGED <<registry, dirty, last_flush, stop, clock, disk, ret, sent,
                   ticks, sightings, quiet>>

\* `await asyncio.sleep(1)` returns (line 329); d is the wall-clock time passed
Wake(d) ==
    /\ pc = "sleep"
    /\ ticks < MaxTicks
    /\ clock' = clock + d
    /\ ticks' = ticks + 1
    /\ pc' = "sweep"
    /\ op' = Op("wake", Some(d))
    /\ UNCHANGED <<registry, dirty, last_flush, stop, disk, ret, sent, sightings,
                   quiet>>

\* The scanner's detection callback cb (lines 301-319) runs on the event loop
\* while run() is suspended in an await. self.dirty = True (line 270) is
\* reached when upsert does not raise before it; the step is named "discard"
\* when upsert raised and cb swallowed the exception.
Deliver(s) ==
    /\ pc \in {"sleep", "stopping"}
    /\ LET r == cb(registry, s, clock)
       IN  /\ registry' = r.registry
           /\ sent' = sent \o r.posts
    /\ dirty' = (dirty \/ ~UpsertRaises(registry, s))
    /\ op' = Op(IF UpsertRaises(registry, s) THEN "discard" ELSE "upsert", Some(s))
    /\ sightings' = sightings + 1
    /\ quiet' = FALSE
    /\ UNCHANGED <<last_flush, stop, clock, disk, pc, ret, ticks>>

\* A sighting from the set of inputs
Upsert(s) ==
    /\ sightings < MaxSightings
    /\ Deliver(s)

\* One device that keeps advertising: more sightings than last_events holds
Burst ==
    /\ sightings < MAX_LAST_EVENTS + MaxSightings
    /\ Deliver(BurstSighting(sightings + 1))

\* stop_req, the signal handler (lines 339-340), also runs during an await;
\* the sleep it interrupts is one of the ticks counted, so it always returns.
StopReq ==
    /\ pc = "sleep"
    /\ ~stop
    /\ ticks < MaxTicks
    /\ stop' = TRUE
    /\ op' = Op("stop_req", None)
    /\ UNCHANGED <<registry, dirty, last_flush, clock, disk, pc, ret, sent,
                   ticks, sightings, quiet>>

\* self.mark_left_if_stale() (line 330)
Sweep ==
    /\ pc = "sweep"
    /\ LET r == mark_left_if_stale(registry, dirty, clock)
       IN  /\ registry' = r.registry
           /\ dirty' = r.dirty
    /\ pc' = "flush"
    /\ op' = Op("sweep", None)
    /\ quiet' = TRUE
    /\ UNCHANGED <<last_flush, stop, clock, disk, ret, sent, ticks, sightings>>

\* Mutant: the flush is taken as soon as the interval has elapsed
FlushDue_AtLeast == dirty /\ (clock - last_flush) >= FLUSH_INTERVAL

\* The flush condition of the loop (line 331)
FlushDue == dirty /\ (clock - last_flush) > FLUSH_INTERVAL

FlushCheck ==
    /\ pc = "flush"
    /\ pc' = IF FlushDue THEN "aw_open" ELSE "loop"
    /\ ret' = "loop"
    /\ op' = Op("flush_check", None)
    /\ UNCHANGED <<registry, dirty, last_flush, stop, clock, disk, sent,
                   ticks, sightings, quiet>>

\* Leaving `async with scanner` (awaits the scanner's stop), then line 336
ExitScanner ==
    /\ pc = "stopping"
    /\ pc' = "final"
    /\ op' = Op("exit_scanner", None)
    /\ UNCHANGED <<registry, dirty, last_flush, stop, clock, disk, ret, sent,
                   ticks, sightings, quiet>>

\* Mutant: run() returns without the final write
FinalCheck_NoWrite ==
    /\ pc = "final"
    /\ pc' = "done"
    /\ ret' = "final"
    /\ op' = Op("final_check", None)
    /\ UNCHANGED <<registry, dirty, last_flush, stop, clock, disk, sent,
                   ticks, sightings, quiet>>

FinalCheck ==
    /\ pc = "final"
    /\ pc' = IF dirty THEN "aw_open" ELSE "done"
    /\ ret' = "final"
    /\ op' = Op("final_check", None)
    /\ UNCHANGED <<registry, dirty, last_flush, stop, clock, disk, sent,
                   ticks, sightings, quiet>>

(* atomic_write_json(self.path, self.registry), step by step *)

\* The file a step of atomic_write_json leaves at tmp_path
TmpAfter(step, data) ==
    CASE step = "aw_open"  -> EmptyFile        \* open(tmp_path, "w") truncates
      [] step = "aw_dump"  -> PartialText      \* json.dump has written a prefix
      [] step = "aw_flush" -> JsonDoc(data)    \* json.dump done, f.flush()
      [] step = "aw_fsync" -> JsonDoc(data)    \* os.fsync, close

\* Mutant: the rename is issued while json.dump is still writing
AwNext_RenameEarly(step) ==
    CASE step = "aw_open"  -> "aw_dump"
      [] step = "aw_dump"  -> "aw_replace"
      [] step = "aw_flush" -> "aw_fsync"
      [] step = "aw_fsync" -> "aw_replace"

AwNext(step) ==
    CASE step = "aw_open"  -> "aw_dump"
      [] step = "aw_dump"  -> "aw_flush"
      [] step = "aw_flush" -> "aw_fsync"
      [] step = "aw_fsync" -> "aw_replace"

\* The files after os.replace(tmp_path, path)
Replace(d) == [target |-> d.tmp, tmp |-> Absent]

AwWrite ==
    /\ pc \in {"aw_open", "aw_dump", "aw_flush", "aw_fsync"}
    /\ disk' = [disk EXCEPT !.tmp = TmpAfter(pc, registry)]
    /\ pc' = AwNext(pc)
    /\ op' = Op(pc, None)
    /\ UNCHANGED <<registry, dirty, last_flush, stop, clock, ret, sent,
                   ticks, sightings, quiet>>

AwReplace ==
    /\ pc = "aw_replace"
    /\ disk' = Replace(disk)
    /\ pc' = "aw_done"
    /\ op' = Op("aw_replace", None)
    /\ UNCHANGED <<registry, dirty, last_flush, stop, clock, ret, sent,
                   ticks, sightings, quiet>>

\* After the write: lines 333-334 in the loop, the end of run() after line 337
AwReturn ==
    /\ pc = "aw_done"
    /\ IF ret = "loop"
       THEN /\ last_flush' = clock
            /\ dirty' = FALSE
            /\ pc' = "loop"
       ELSE /\ pc' = "done"
            /\ UNCHANGED <<last_flush, dirty>>
    /\ op' = Op("aw_return", None)
    /\ UNCHANGED <<registry, stop, clock, disk, ret, sent, ticks, sightings,
                   quiet>>

\* Abrupt termination of the process before, between or after the steps of a
\* write: nothing runs afterwards and the files stay as they are.
WritePoints == {"aw_open", "aw_dump", "aw_flush", "aw_fsync", "aw_replace", "aw_done"}

Crash ==
    /\ pc \in WritePoints
    /\ pc' = "crashed"
    /\ op' = Op("crash", Some(pc))
    /\ UNCHANGED <<registry, dirty, last_flush, stop, clock, disk, ret, sent,
                   ticks, sightings, quiet>>

Next ==
    \/ LoopHead
    \/ \E d \in Deltas : Wake(d)
    \/ \E s \in Sightings : Upsert(s)
    \/ StopReq
    \/ Sweep
    \/ FlushCheck
    \/ ExitScanner
    \/ FinalCheck
    \/ AwWrite
    \/ AwReplace
    \/ AwReturn
    \/ Crash

Spec == Init /\ [][Next]_vars

\* The program with the loop's delays on the scale of the flush interval
NextFlush ==
    \/ LoopHead
    \/ \E d \in FlushDeltas : Wake(d)
    \/ \E s \in Sightings : Upsert(s)
    \/ StopReq
    \/ Sweep
    \/ FlushCheck
    \/ ExitScanner
    \/ FinalCheck
    \/ AwWrite
    \/ AwReplace
    \/ AwReturn
    \/ Crash

SpecFlush == Init /\ [][NextFlush]_vars

\* The program started on any kind of file
InitLoad == InitFrom(LoadFiles)

SpecLoad == InitLoad /\ [][NextFlush]_vars

\* The program under sightings that repeat and permute their identifiers
NextFp ==
    \/ LoopHead
    \/ \E d \in FlushDeltas : Wake(d)
    \/ \E s \in FpSightings : Upsert(s)
    \/ StopReq
    \/ Sweep
    \/ FlushCheck
    \/ ExitScanner
    \/ FinalCheck
    \/ AwWrite
    \/ AwReplace
    \/ AwReturn
    \/ Crash

SpecFp == Init /\ [][NextFp]_vars

\* The program started without a file
InitFresh == InitFrom({Absent})

SpecFresh == InitFresh /\ [][Next]_vars

\* The program next to one device that keeps advertising
NextBurst ==
    \/ LoopHead
    \/ \E d \in LateDeltas : Wake(d)
    \/ Burst
    \/ StopReq
    \/ Sweep
    \/ FlushCheck
    \/ ExitScanner
    \/ FinalCheck
    \/ AwWrite
    \/ AwReplace
    \/ AwReturn

SpecBurst == InitFresh /\ [][NextBurst]_vars

\* The program started on a document with a record the upsert fails on
InitFaulty == InitFrom({EventlessDoc})

SpecFaulty == InitFaulty /\ [][NextFlush]_vars

\* The program when the process is never terminated abruptly. The steps of
\* run() itself are always taken in the end: the sleep returns, and the
\* sweep, the flush and the write are straight-line code.
LoopStep ==
    \/ LoopHead
    \/ \E d \in FlushDeltas : Wake(d)
    \/ Sweep
    \/ FlushCheck
    \/ ExitScanner
    \/ FinalCheck
    \/ AwWrite
    \/ AwReplace
    \/ AwReturn

NextGraceful ==
    \/ LoopStep
    \/ \E s \in Sightings : Upsert(s)
    \/ StopReq

SpecGraceful == Init /\ [][NextGraceful]_vars /\ WF_vars(LoopStep)

----------------------------------------------------------------------------
(* Vocabulary of the properties *)

Devices == registry.devices
DevicesAfter == registry'.devices

\* The step being taken is an upsert / a sweep
UpsertStep == op'.name = "upsert"
SweepStep == op'.name = "sweep"

\* The fingerprint the upsert being taken files its sighting under
StepSighting == Val(op'.arg)
StepFp == FpOf(StepSighting)

\* The record is in state Present (a fingerprint without a record is Absent)
IsPresent(devs, fp) == fp \in DOMAIN devs /\ devs[fp].present

\* A field of the record before the step, with the value a new record starts from
Before(fp, field, fresh) == IF fp \in DOMAIN Devices THEN Devices[fp][field] ELSE fresh

\* The last state was reached by an upsert / a sweep
DidUpsert == op.name = "upsert"
DidSweep == op.name = "sweep"

PresenceFields ==
    {"present", "enter_count", "leave_count", "reenter_count", "last_enter",
     "last_enter_ts", "last_left", "last_left_ts", "presence_by_day"}

ObservationFields ==
    {"last_seen", "last_seen_ts", "seen_count", "last_rssi", "best_rssi",
     "last_events", "addresses", "names_seen"}

----------------------------------------------------------------------------
\* C1: every change of the file at the target path is the rename of
\* atomic_write_json and puts the complete serialisation of the registry being
\* written there; the target never holds partial or empty text, whichever step
\* the process is terminated at, and only the .tmp sibling does.
C1_TargetIsOldOrNew ==
    [][ /\ disk'.target # disk.target =>
              /\ pc = "aw_replace"
              /\ disk'.target = JsonDoc(registry)
        /\ disk'.target.kind \notin {"partial", "empty"}
        /\ pc' = "crashed" => disk'.target \in {disk.target, JsonDoc(registry)} ]_vars

\* Terminated in the middle of json.dump: .tmp is partial, the target still
\* holds the document found at startup.
C1_Witness ==
    /\ pc = "crashed"
    /\ disk.tmp = PartialText
    /\ disk.target = SavedDoc

\* C2: an upsert of a sighting whose record is Absent (or does not exist yet)
\* leaves the record Present with enter_count one higher and last_enter,
\* last_enter_ts stamped with the time of the upsert.
C2_EnterOnAbsent ==
    [][ (UpsertStep /\ ~IsPresent(Devices, StepFp)) =>
            /\ IsPresent(DevicesAfter, StepFp)
            /\ DevicesAfter[StepFp].enter_count = Before(StepFp, "enter_count", 0) + 1
            /\ DevicesAfter[StepFp].last_enter = Some(utc_now_iso(clock))
            /\ DevicesAfter[StepFp].last_enter_ts = Some(clock) ]_vars

\* A record that left and has just entered for the second time.
C2_Witness ==
    /\ DidUpsert
    /\ \E fp \in DOMAIN Devices :
          /\ fp = FpOf(Val(op.arg))
          /\ Devices[fp].enter_count = 2
          /\ Devices[fp].leave_count = 1
          /\ Devices[fp].seen_count = 2
          /\ Devices[fp].last_enter_ts = Some(clock)

\* C3 (as stated): a sweep moves a Present record that has a last-seen epoch
\* to Absent exactly when now - last_seen_ts > LEAVE_TIMEOUT.
C3_StrictTimeout ==
    [][ SweepStep =>
          \A fp \in DOMAIN Devices :
             (Devices[fp].present /\ Devices[fp].last_seen_ts > 0) =>
                (~DevicesAfter[fp].present <=>
                     clock - Devices[fp].last_seen_ts > LEAVE_TIMEOUT) ]_vars

\* C3 (amended): a sweep moves a Present record to Absent exactly when the
\* record has a last-seen epoch (last_seen_ts > 0) that is LEAVE_TIMEOUT or
\* more in the past, now - last_seen_ts >= LEAVE_TIMEOUT; any other Present
\* record stays Present.
C3_TimeoutReached ==
    [][ SweepStep =>
          \A fp \in DOMAIN Devices :
             Devices[fp].present =>
                (~DevicesAfter[fp].present <=>
                     /\ Devices[fp].last_seen_ts > 0
                     /\ clock - Devices[fp].last_seen_ts >= LEAVE_TIMEOUT) ]_vars

\* A record marked as left by this sweep exactly LEAVE_TIMEOUT after its last
\* sighting, next to a Present record that the sweep left alone.
C3_Witness ==
    /\ DidSweep
    /\ \E fp \in DOMAIN Devices :
          /\ ~Devices[fp].present
          /\ Devices[fp].last_left = Some(utc_now_iso(clock))
          /\ clock - Devices[fp].last_seen_ts = LEAVE_TIMEOUT
    /\ \E fp \in DOMAIN Devices :
          /\ Devices[fp].present
          /\ Devices[fp].last_seen_ts > 0

\* C4: a sweep that moves a record with last enter T0 from Present to Absent
\* adds max(0, now - T0) to the presence_by_day bucket of T0's UTC day and
\* changes no other bucket; no other step, and no transition of a record
\* without an enter timestamp, changes presence_by_day.
C4_DwellBucket ==
    [][ \A fp \in DOMAIN DevicesAfter :
          LET old == Before(fp, "presence_by_day", EmptyDict)
              new == DevicesAfter[fp].presence_by_day
              T0  == Before(fp, "last_enter_ts", None)
              left == SweepStep /\ IsPresent(Devices, fp) /\ ~DevicesAfter[fp].present
          IN  IF left /\ T0 # None /\ Val(T0) # 0
              THEN /\ DOMAIN new = DOMAIN old \cup {DayKey(Val(T0))}
                   /\ \A day \in DOMAIN new :
                         new[day] = Get(old, day, 0)
                                    + (IF day = DayKey(Val(T0))
                                       THEN (IF clock - Val(T0) > 0 THEN clock - Val(T0) ELSE 0)
                                       ELSE 0)
              ELSE new = old ]_vars

\* A record that entered before midnight and was swept out after it: the dwell
\* is in the bucket of the enter's day, and there is none for the sweep's day.
C4_Witness ==
    /\ DidSweep
    /\ \E fp \in DOMAIN Devices :
          LET rec == Devices[fp]
          IN  /\ ~rec.present
              /\ rec.last_left_ts = Some(clock)
              /\ DayKey(Val(rec.last_enter_ts)) # DayKey(clock)
              /\ DayKey(Val(rec.last_enter_ts)) \in DOMAIN rec.presence_by_day
              /\ DayKey(clock) \notin DOMAIN rec.presence_by_day
              /\ rec.presence_by_day[DayKey(Val(rec.last_enter_ts))] >= LEAVE_TIMEOUT

\* C5 (as stated): every record with present = true has last_enter_ts set and
\* non-zero.
C5_PresentHasEnterTs ==
    \A fp \in DOMAIN Devices :
       Devices[fp].present =>
          /\ Devices[fp].last_enter_ts # None
          /\ Val(Devices[fp].last_enter_ts) # 0

\* C6: an upsert on an Absent record adds one to reenter_count when the record
\* holds a prior leave (last_left is set) and leaves it alone otherwise; a
\* record created by the upsert has reenter_count 0; no other step and no
\* other record's reenter_count changes.
C6_ReenterCount ==
    [][ \A fp \in DOMAIN DevicesAfter :
          LET old == Before(fp, "reenter_count", 0)
              enters == UpsertStep /\ fp = StepFp /\ ~IsPresent(Devices, fp)
          IN  DevicesAfter[fp].reenter_count =
                 IF enters /\ Before(fp, "last_left", None) # None THEN old + 1 ELSE old ]_vars

\* A record created in this run, after its first enter, one leave and the
\* enter that followed: one re-enter counted.
C6_Witness ==
    /\ DidUpsert
    /\ disk.target = Absent
    /\ \E fp \in DOMAIN Devices :
          /\ fp = FpOf(Val(op.arg))
          /\ Devices[fp].enter_count = 2
          /\ Devices[fp].leave_count = 1
          /\ Devices[fp].reenter_count = 1

\* C7: a step hands a payload to the notifier exactly when it is an upsert
\* that moves its record from Absent to Present and the sighting's name,
\* trimmed and lowercased, is not suppressed and (the trimmed name is not empty
\* or the record's primary tag is not "unclassified"); it then hands over
\* exactly one "enter" payload for that record. Every other step (sweep, flush,
\* upsert on a Present record, suppressed name) dispatches nothing.
C7_NotifyPolicy ==
    [][ LET enters  == UpsertStep /\ ~IsPresent(Devices, StepFp)
            name    == NameOrEmpty(StepSighting.name)
            trimmed == Strip(name)
            allowed == /\ Lower(trimmed) \notin SUPPRESS_NOTIFY_NAMES
                       /\ \/ trimmed # <<>>
                          \/ DevicesAfter[StepFp].primary_tag # "unclassified"
        IN  IF enters /\ allowed
            THEN /\ Len(sent') = Len(sent) + 1
                 /\ SubSeq(sent', 1, Len(sent)) = sent
                 /\ sent'[Len(sent')].event = "enter"
                 /\ sent'[Len(sent')].fp = StepFp
                 /\ sent'[Len(sent')].name = StepSighting.name
            ELSE sent' = sent ]_vars

\* An Apple device (its tag alone would qualify) entered under the suppressed
\* name, written with capitals and padding: nothing was dispatched.
C7_Witness ==
    /\ DidUpsert
    /\ Val(op.arg).name = Some(PaddedSuppressedName)
    /\ sightings = 1
    /\ disk.target = Absent
    /\ Devices[AppleFp[1]].primary_tag = "vendor:apple"
    /\ Devices[AppleFp[1]].present
    /\ Devices[AppleFp[1]].enter_count = 1
    /\ sent = <<>>

\* C8: an upsert on a record that is already Present changes none of its
\* presence fields, and nothing of the record besides its observation fields.
C8_PresentUpsertFrame ==
    [][ (UpsertStep /\ IsPresent(Devices, StepFp)) =>
           /\ DOMAIN DevicesAfter[StepFp] = DOMAIN Devices[StepFp]
           /\ \A f \in PresenceFields : DevicesAfter[StepFp][f] = Devices[StepFp][f]
           /\ \A f \in DOMAIN Devices[StepFp] \ ObservationFields :
                 DevicesAfter[StepFp][f] = Devices[StepFp][f] ]_vars

\* A record created in this run and seen a second time while Present: two
\* sightings, one enter.
C8_Witness ==
    /\ DidUpsert
    /\ disk.target = Absent
    /\ \E fp \in DOMAIN Devices :
          /\ fp = FpOf(Val(op.arg))
          /\ Devices[fp].present
          /\ Devices[fp].seen_count = 2
          /\ Devices[fp].enter_count = 1
          /\ Devices[fp].leave_count = 0
          /\ Len(Devices[fp].last_events) = 2

\* The presence fields a sweep can touch
SweptFields ==
    {"present", "enter_count", "leave_count", "reenter_count", "last_left",
     "last_left_ts", "presence_by_day"}

SweepLeaves(fp) == \A f \in SweptFields : DevicesAfter[fp][f] = Devices[fp][f]

\* C9 (as stated): a sweep changes none of the swept presence fields of an
\* Absent record, and a second sweep with no upsert since the first changes
\* them for no record.
C9_SecondSweepNoOp ==
    [][ SweepStep =>
          \A fp \in DOMAIN Devices :
             (~Devices[fp].present \/ quiet) => SweepLeaves(fp) ]_vars

\* C9 (amended): a sweep changes none of present, enter_count, leave_count,
\* reenter_count, last_left, last_left_ts and presence_by_day of a record that
\* is Absent, or that is Present and was last seen less than LEAVE_TIMEOUT
\* before the sweep; this holds for first and repeated sweeps alike.
C9_SweepNoOp ==
    [][ SweepStep =>
          \A fp \in DOMAIN Devices :
             (\/ ~Devices[fp].present
              \/ clock - Devices[fp].last_seen_ts < LEAVE_TIMEOUT) => SweepLeaves(fp) ]_vars

\* A second sweep in a row (no upsert in between) over a record an earlier
\* sweep marked as left and a Present record still within the timeout.
C9_Witness ==
    /\ DidSweep
    /\ quiet
    /\ ticks = 2
    /\ \E fp \in DOMAIN Devices :
          /\ ~Devices[fp].present
          /\ Devices[fp].leave_count = 1
          /\ Devices[fp].last_left # Some(utc_now_iso(clock))
    /\ \E fp \in DOMAIN Devices :
          /\ Devices[fp].present
          /\ Devices[fp].last_seen_ts > 0
          /\ clock - Devices[fp].last_seen_ts < LEAVE_TIMEOUT

\* C10: no step lowers seen_count, enter_count, leave_count or reenter_count
\* of a record, and no step removes a record from the registry.
C10_Monotonic ==
    [][ \A fp \in DOMAIN Devices :
          /\ fp \in DOMAIN DevicesAfter
          /\ \A f \in {"seen_count", "enter_count", "leave_count", "reenter_count"} :
                DevicesAfter[fp][f] >= Devices[fp][f] ]_vars

\* After upserts, sweeps and a flush: a record with every counter raised, and
\* the written document on disk.
C10_Witness ==
    /\ disk.target.kind = "json"
    /\ disk.target \notin StartFiles
    /\ \E fp \in DOMAIN Devices :
          /\ Devices[fp].seen_count >= 2
          /\ Devices[fp].enter_count >= 2
          /\ Devices[fp].leave_count >= 2
          /\ Devices[fp].reenter_count >= 1

\* C11 as stated: the flush check of a tick starts an atomic write exactly
\* when dirty is true and at least FLUSH_INTERVAL seconds have passed since
\* the last flush.
C11_FlushAtInterval ==
    [][ op'.name = "flush_check" =>
            ((pc' = "aw_open") <=> (dirty /\ clock - last_flush >= FLUSH_INTERVAL)) ]_vars

\* C11, amended: the flush check of a tick starts an atomic write exactly when
\* dirty is true and more than FLUSH_INTERVAL seconds have passed since the
\* last flush; when the write returns the target holds the registry, dirty is
\* false and the flush clock is the time of the write; a flush check that
\* starts no write leaves the files, dirty and the flush clock as they were.
C11_FlushWhenOverdue ==
    [][ /\ op'.name = "flush_check" =>
              /\ (pc' = "aw_open") <=> (dirty /\ clock - last_flush > FLUSH_INTERVAL)
              /\ pc' # "aw_open" =>
                    /\ pc' = "loop"
                    /\ UNCHANGED <<disk, dirty, last_flush, registry>>
        /\ (op'.name = "aw_return" /\ ret = "loop") =>
              /\ disk'.target = JsonDoc(registry)
              /\ ~dirty'
              /\ last_flush' = clock ]_vars

\* The first tick came exactly FLUSH_INTERVAL seconds after the start and
\* wrote nothing; the second, one second later, has flushed.
C11_Witness ==
    /\ op.name = "aw_return"
    /\ ret = "loop"
    /\ ticks = 2
    /\ clock = StartTime + FLUSH_INTERVAL + 1
    /\ last_flush = clock
    /\ ~dirty
    /\ disk.target = JsonDoc(registry)

\* C12: once stop is requested the loop leaves at its next head and run()
\* comes to its end; there it writes the registry if and only if dirty is
\* set; and when run() has ended the document at the target is the registry
\* in memory, with every upsert and sweep applied.
C12_GracefulStop ==
    /\ stop ~> (pc = "done")
    /\ [][ /\ (stop /\ pc = "loop") => pc' = "stopping"
           /\ op'.name = "final_check" => ((pc' = "aw_open") <=> dirty) ]_vars
    /\ [](pc = "done" => disk.target = JsonDoc(registry))

\* run() has ended after a sighting that arrived while the scanner was being
\* stopped, and the final write has put it on disk.
C12_Witness ==
    /\ pc = "done"
    /\ stop
    /\ op.name = "aw_return"
    /\ ret = "final"
    /\ sightings > 0
    /\ last_flush = StartTime
    /\ disk.target = JsonDoc(registry)

\* C13: whatever file is at the path, constructing the tracker raises no
\* error; an unusable document (absent, empty, truncated, not an object, or
\* with a malformed meta or devices entry) is replaced by a fresh registry,
\* and the tracker is at the head of its loop, ready for upserts.
C13_StartsOnAnyFile ==
    /\ pc # "raised"
    /\ op.name = "init" =>
          /\ pc = "loop"
          /\ disk.target # SavedDoc =>
                registry = Construct(Absent, StartTime)

\* C14: a sighting whose processing raises is discarded: the registry and
\* dirty are exactly as they were before it; the loop goes on, and later
\* sightings and ticks are processed.
C14_FailedSightingDiscarded ==
    [][ op'.name = "discard" =>
            /\ registry' = registry
            /\ dirty' = dirty
            /\ pc' = pc ]_vars

\* The record was created for the three identifier sets of the sighting
SameSets(s, rec) ==
    /\ SeqToSet(s.mfg_data) = SeqToSet(rec.fingerprint.manufacturer_ids)
    /\ SeqToSet(s.service_uuids) = SeqToSet(rec.fingerprint.service_uuids)
    /\ SeqToSet(s.service_data_keys) = SeqToSet(rec.fingerprint.service_data_keys)

\* C15: the record an upsert works on is determined by the sighting's sets
\* of manufacturer ids, service UUIDs and service-data keys alone: when the
\* registry has a record made for the same three sets (listed in any order,
\* any number of times, all three empty included), the upsert updates that
\* record and creates none, whatever the address, name, signal strength and
\* origin; otherwise it creates one record. No two records share their sets.
C15_SameSetsSameRecord ==
    [][ UpsertStep =>
          LET same == {fp \in DOMAIN Devices : SameSets(StepSighting, Devices[fp])}
          IN  /\ Cardinality(same) <= 1
              /\ \A fp \in same :
                    /\ fp = StepFp
                    /\ DOMAIN DevicesAfter = DOMAIN Devices
                    /\ DevicesAfter[fp].seen_count = Devices[fp].seen_count + 1
              /\ same = {} =>
                    /\ StepFp \notin DOMAIN Devices
                    /\ DOMAIN DevicesAfter = DOMAIN Devices \cup {StepFp}
              /\ SameSets(StepSighting, DevicesAfter[StepFp]) ]_vars

\* One record has taken two sightings that list the same identifiers in
\* different orders and multiplicities, from two addresses.
C15_Witness ==
    /\ DidUpsert
    /\ \E fp \in DOMAIN Devices :
          /\ Devices[fp].fingerprint.manufacturer_ids = <<76, 117>>
          /\ Devices[fp].fingerprint.service_uuids = <<UuidA, UuidB>>
          /\ Devices[fp].seen_count = 2
          /\ SeqToSet(Devices[fp].addresses) = {"AA", "BB"}

\* C16: an upsert raises seen_count of the record under the sighting's
\* fingerprint by exactly 1 (from 0 for a record it creates), sets dirty, and
\* leaves every other record as it was, field by field; no other step (sweep,
\* flush, write, loop) changes the seen_count of any record.
C16_CountsEachSighting ==
    [][ /\ UpsertStep =>
              /\ DOMAIN DevicesAfter = DOMAIN Devices \cup {StepFp}
              /\ DevicesAfter[StepFp].seen_count = Before(StepFp, "seen_count", 0) + 1
              /\ dirty'
              /\ \A fp \in DOMAIN Devices \ {StepFp} : DevicesAfter[fp] = Devices[fp]
        /\ op'.name \notin {"upsert", "discard"} =>
              /\ DOMAIN DevicesAfter = DOMAIN Devices
              /\ \A fp \in DOMAIN Devices :
                    DevicesAfter[fp].seen_count = Devices[fp].seen_count ]_vars

\* After a flush had cleared dirty, an upsert has counted a second sighting on
\* one record next to another record, and dirty is set again; the record had
\* been marked as left by a sweep in between.
C16_Witness ==
    /\ DidUpsert
    /\ dirty
    /\ disk.target \notin StartFiles
    /\ disk.target # JsonDoc(registry)
    /\ Cardinality(DOMAIN Devices) >= 2
    /\ \E fp \in DOMAIN Devices :
          /\ Devices[fp].seen_count = 2
          /\ Devices[fp].leave_count >= 1

\* C17: a sweep that takes a record from Present to Absent sets present to
\* false, raises leave_count by exactly 1 and stamps both last_left and
\* last_left_ts with the time of the sweep.
C17_LeaveStamped ==
    [][ SweepStep =>
          \A fp \in DOMAIN Devices :
              (Devices[fp].present /\ ~DevicesAfter[fp].present) =>
                  /\ DevicesAfter[fp].leave_count = Devices[fp].leave_count + 1
                  /\ DevicesAfter[fp].last_left = Some(utc_now_iso(clock))
                  /\ DevicesAfter[fp].last_left_ts = Some(clock) ]_vars

Min(a, b) == IF a < b THEN a ELSE b

\* C18: after n sightings of a record, its last_events has min(n, 25) entries
\* (never more than MAX_LAST_EVENTS), and they are the events of the most
\* recent min(n, 25) sightings, oldest first: entry i is the event of sighting
\* n - min(n, 25) + i, told by the signal strength -k of the k-th sighting.
C18_LastEventsWindow ==
    \A fp \in DOMAIN Devices :
        LET events == Devices[fp].last_events
            n      == Devices[fp].seen_count
        IN  /\ Len(events) <= MAX_LAST_EVENTS
            /\ Len(events) = Min(n, MAX_LAST_EVENTS)
            /\ \A i \in 1..Len(events) :
                  /\ events[i].rssi = Some(-(n - Len(events) + i))
                  /\ events[i].address = Some("AA")
            /\ \A i \in 1..(Len(events) - 1) :
                  events[i].time.iso <= events[i + 1].time.iso

\* The record has taken 27 sightings: the events of the first two are gone,
\* the list starts at the third.
C18_Witness ==
    \E fp \in DOMAIN Devices :
        /\ Devices[fp].seen_count = MAX_LAST_EVENTS + 2
        /\ Len(Devices[fp].last_events) = MAX_LAST_EVENTS
        /\ Devices[fp].last_events[1].rssi = Some(-3)
        /\ Devices[fp].last_events[MAX_LAST_EVENTS].rssi = Some(-(MAX_LAST_EVENTS + 2))

\* C19: whenever dirty is false, the document at the target path is the
\* registry in memory, so no change of the registry can miss the next write.
C19_CleanMeansSaved ==
    ~dirty => disk.target = JsonDoc(registry)

\* C20: in a tracker started from an empty registry, every record has
\* enter_count - leave_count = 1 while Present and = 0 while Absent, and
\* reenter_count <= leave_count.
C20_CountersBalance ==
    \A fp \in DOMAIN Devices :
        /\ Devices[fp].enter_count - Devices[fp].leave_count =
              (IF Devices[fp].present THEN 1 ELSE 0)
        /\ Devices[fp].reenter_count <= Devices[fp].leave_count

\* A record that has entered, left at a sweep and entered again is Present.
C20_Witness ==
    /\ DidUpsert
    /\ disk.target = Absent
    /\ \E fp \in DOMAIN Devices :
          /\ Devices[fp].present
          /\ Devices[fp].enter_count = 2
          /\ Devices[fp].leave_count = 1
          /\ Devices[fp].reenter_count = 1

====
